---- MODULE Spec2Model ----
(***************************************************************************)
(* Model of the dispatch scheduler of cca-mail-sender:                     *)
(*   app/services/scheduler_service.py  (SchedulerService)                 *)
(*   app/services/brevo_service.py      (BrevoService)                     *)
(*   app/routers/api.py                 (update_settings, resend_email)    *)
(*   app/models.py                      (UserSettings, Contact)            *)
(*                                                                         *)
(* The store (SQLite through SQLModel) is the shared state; the scheduler  *)
(* thread is a sequential process whose position is pc; the HTTP handlers  *)
(* and the clock are the environment and interleave with the scheduler at  *)
(* every blocking point (each provider call of a dispatch sleeps or waits  *)
(* on the network, so a dispatch is several steps).                        *)
(***************************************************************************)
EXTENDS Integers, Sequences, FiniteSets, TLC

\* ------------------------------------------------------------------ bounds
MaxLimit == 1
MaxEnvSteps == 1

\* ------------------------------------------------------- program constants
HourSeconds == 3600
DaySeconds == 86400
max_retries == 10
DefaultHourlyLimit == 20
DefaultDailyLimit == 300
NoTime == 0 - 1
NoContact == 0

LimitValues == 0..MaxLimit
\* 22:30 and 23:50 of day 0
StartTimes == {81000, 85800}
\* 20, 60 and 80 minutes
TimeSteps == {1200, 3600, 4800}
ApiKeys == {"", "key"}

\* The recipients the import has stored, in insertion order (id = position).
InitContacts ==
    << [user_id |-> 1, email |-> "a@x.com"],
       [user_id |-> 1, email |-> "b@x.com"],
       [user_id |-> 2, email |-> "a@x.com"] >>
ContactIds == 1..Len(InitContacts)
Users == {InitContacts[c].user_id : c \in ContactIds}
NumUsers == Cardinality(Users)
Emails == {InitContacts[c].email : c \in ContactIds}

\* -------------------------------------------------------------- error notes
\* Contact.error_message, kept as the parts the code formats into the text.
Note(kind, msg_id, timeout, events) ==
    [kind |-> kind, msg_id |-> msg_id, timeout |-> timeout, events |-> events]
NoNote == Note("None", "", FALSE, {})
CreateFailedNote == Note("Create Contact Failed", "", FALSE, {})
SendFailedNote == Note("Send Email Failed", "", FALSE, {})
InternalErrorNote == Note("Internal Error", "", FALSE, {})
BouncedNote(event_names) == Note("Bounced/Failed", "", FALSE, event_names)
MessageIdNote(msg_id, timeout) == Note("Message ID", msg_id, timeout, {})

\* ------------------------------------------------------------ BrevoService
\* An HTTP answer is its status code; 0 stands for a transport exception.
UpsertResponses == {201, 204, 409, 400, 0}
SendResponses == {200, 201, 202, 400, 0}
DeleteResponses == {204, 404, 500, 0}
EventSets == { {"request"}, {"delivered"}, {"bounced"}, {"soft_bounce"}, {"error"} }
StatusAnswers == {[code |-> 200, events |-> E] : E \in EventSets}
                     \cup {[code |-> 404, events |-> {}], [code |-> 0, events |-> {}]}

\* create_contact without the 409 branch
create_contact_Conflict(code) ==
    IF code \in {201, 204} THEN [success |-> TRUE, error |-> "None"]
    ELSE IF code = 0 THEN [success |-> FALSE, error |-> "exception"]
    ELSE [success |-> FALSE, error |-> "response.text"]

create_contact(code) ==
    IF code \in {201, 204} THEN [success |-> TRUE, error |-> "None"]
    ELSE IF code = 409 THEN [success |-> TRUE, error |-> "Contact already exists"]
    ELSE IF code = 0 THEN [success |-> FALSE, error |-> "exception"]
    ELSE [success |-> FALSE, error |-> "response.text"]

send_email(code) ==
    IF code \in {201, 200, 202} THEN [success |-> TRUE, msg_id |-> "M1"]
    ELSE IF code = 0 THEN [success |-> FALSE, msg_id |-> "exception"]
    ELSE [success |-> FALSE, msg_id |-> "response.text"]

\* None is [ok |-> FALSE]; a JSON body is [ok |-> TRUE] with its event names.
get_email_status(answer) ==
    IF answer.code = 200 THEN [ok |-> TRUE, events |-> answer.events]
    ELSE [ok |-> FALSE, events |-> {}]

delete_contact(code) == code \in {204, 200, 404}

\* ------------------------------------------------------------------- state
VARIABLES
    clock,          \* datetime.utcnow(), in seconds
    settings,       \* UserSettings row of each user
    contacts,       \* Contact rows: status, error_message
    stop_event,     \* SchedulerService._stop_event
    pc,             \* position of the scheduler thread
    idx,            \* position of the for loop in users_with_settings
    processed_any,  \* local of _run_loop
    picked,         \* per user: recipients moved to processing in this pass
    cur,            \* the contact handed to _process_single_contact
    loc,            \* locals of _process_single_contact and the session's objects
    calls,          \* provider calls issued for the current dispatch
    env,            \* requests served and clock advances so far
    lowered,        \* per user: a settings write has lowered one of its limits
    resent          \* the last resend request served: who asked, for which email

vars == << clock, settings, contacts, stop_event, pc, idx, processed_any,
           picked, cur, loc, calls, env, lowered, resent >>

DispatchPcs == {"upsert", "upserted", "send", "poll", "finish", "except"}

\* ------------------------------------------------------------------ records
NoSettings ==
    [present |-> FALSE, brevo_api_key |-> "",
     hourly_limit |-> DefaultHourlyLimit, daily_limit |-> DefaultDailyLimit,
     emails_sent_this_hour |-> 0, emails_sent_today |-> 0,
     current_hour_window_start |-> NoTime, current_day_window_start |-> NoTime,
     last_run |-> NoTime]

\* The row signup creates: defaults of the UserSettings model.
SignupSettings == [NoSettings EXCEPT !.present = TRUE]

Configured(key, hl, dl) ==
    [SignupSettings EXCEPT !.brevo_api_key = key,
                           !.hourly_limit = hl, !.daily_limit = dl]

\* no resend request has been served
NoRequest == [user |-> 0, email |-> ""]

NoCalls == [upsert |-> 0, send |-> 0, status |-> 0, remove |-> 0]

NoLocals ==
    [response |-> 0, success |-> FALSE, error |-> "None", msg_id |-> "",
     i |-> 0, ready_to_delete |-> FALSE, event_names |-> {},
     error_message |-> NoNote, only_request |-> TRUE,
     emails_sent_today |-> 0, emails_sent_this_hour |-> 0]

Date(t) == t \div DaySeconds

Init ==
    /\ clock \in StartTimes
    /\ settings \in [Users -> {NoSettings, SignupSettings}
                        \cup {Configured("key", hl, dl) :
                                 hl \in 1..MaxLimit, dl \in 1..MaxLimit}]
    /\ contacts = [c \in ContactIds |->
                      [status |-> "pending", error_message |-> NoNote]]
    /\ stop_event = FALSE
    /\ pc = "loop"
    /\ idx = 1
    /\ processed_any = FALSE
    /\ picked = [u \in Users |-> 0]
    /\ cur = NoContact
    /\ loc = NoLocals
    /\ calls = NoCalls
    /\ env = 0
    /\ lowered = [u \in Users |-> FALSE]
    /\ resent = NoRequest


\* ------------------------------------------------------------ Quota Tracker
\* _run_loop, "Initialize windows"
InitWindows(s, now) ==
    LET d == IF s.current_day_window_start = NoTime
             THEN [s EXCEPT !.current_day_window_start = now, !.emails_sent_today = 0]
             ELSE s
    IN  IF d.current_hour_window_start = NoTime
        THEN [d EXCEPT !.current_hour_window_start = now, !.emails_sent_this_hour = 0]
        ELSE d

\* a day window of 24 hours instead of a calendar day
DayRollover_Elapsed(now, start) == (now - start) >= DaySeconds

\* now.date() > settings.current_day_window_start.date()
DayRollover(now, start) == Date(now) > Date(start)

\* (now - settings.current_hour_window_start).total_seconds() > 3600
HourElapsed(now, start) == (now - start) > HourSeconds

\* _run_loop, "Reset Day"
ResetDay(s, now) ==
    IF DayRollover(now, s.current_day_window_start)
    THEN [s EXCEPT !.emails_sent_today = 0, !.current_day_window_start = now]
    ELSE s

\* _run_loop, "Reset Hour"
ResetHour(s, now) ==
    IF HourElapsed(now, s.current_hour_window_start)
    THEN [s EXCEPT !.emails_sent_this_hour = 0, !.current_hour_window_start = now]
    ELSE s

\* "Refresh limits logic (per user)", as committed and refreshed
RefreshLimits(s, now) == ResetHour(ResetDay(InitWindows(s, now), now), now)

\* the limit checks with > for >=
OverLimit_Strict(s) ==
    \/ s.emails_sent_today > s.daily_limit
    \/ s.emails_sent_this_hour > s.hourly_limit

\* the limit checks without the daily one
OverLimit_HourOnly(s) == s.emails_sent_this_hour >= s.hourly_limit

\* _run_loop, "Check Limits": the two `continue`s
OverLimit(s) ==
    \/ s.emails_sent_today >= s.daily_limit
    \/ s.emails_sent_this_hour >= s.hourly_limit

\* a test for the settings row only
NoCredential_RowOnly(s) == ~s.present

\* `not user.settings or not user.settings.brevo_api_key`
NoCredential(s) == ~s.present \/ s.brevo_api_key = ""

\* a selection that requeues the recipients found in processing
PendingOf_OrProcessing(u) ==
    {c \in ContactIds : /\ InitContacts[c].user_id = u
                         /\ contacts[c].status \in {"pending", "processing"}}

\* a selection that takes the last pending row
FirstOf_Last(S) == CHOOSE c \in S : \A o \in S : c >= o

\* a selection without the status filter on sent recipients
PendingOf_OrSent(u) ==
    {c \in ContactIds : /\ InitContacts[c].user_id = u
                         /\ contacts[c].status \in {"pending", "sent"}}

\* select(Contact).where(user_id == user.id).where(status == "pending")
PendingOf(u) ==
    {c \in ContactIds : InitContacts[c].user_id = u /\ contacts[c].status = "pending"}

\* .limit(1).first(): the first row in insertion order
FirstOf(S) == CHOOSE c \in S : \A o \in S : c <= o

\* a for loop that gives the same user another turn
NextUser_Stay(i) == i

\* the for loop moves on to the next user
NextUser(i) == i + 1

\* ----------------------------------------------------------- Scheduler Loop
\* while not self._stop_event.is_set(): a pass begins, all users are loaded
PassStart ==
    /\ pc = "loop"
    /\ ~stop_event
    /\ pc' = "turn"
    /\ idx' = 1
    /\ processed_any' = FALSE
    /\ picked' = [u \in Users |-> 0]
    /\ UNCHANGED << clock, settings, contacts, stop_event, cur, loc, calls,
                    env, lowered, resent >>

\* a thread that reads the stop signal at every blocking point
Exit_AtAnyPoint ==
    /\ pc \in DispatchPcs \cup {"loop", "turn"}
    /\ stop_event
    /\ pc' = "exited"
    /\ UNCHANGED << clock, settings, contacts, stop_event, idx, processed_any,
                    picked, cur, loc, calls, env, lowered, resent >>

\* the while condition sees the stop signal: the thread ends
Exit ==
    /\ pc = "loop"
    /\ stop_event
    /\ pc' = "exited"
    /\ UNCHANGED << clock, settings, contacts, stop_event, idx, processed_any,
                    picked, cur, loc, calls, env, lowered, resent >>

\* the for loop is exhausted; `if not processed_any: time.sleep(2)`
PassEnd ==
    /\ pc = "turn"
    /\ idx > NumUsers
    /\ pc' = "loop"
    /\ UNCHANGED << clock, settings, contacts, stop_event, idx, processed_any,
                    picked, cur, loc, calls, env, lowered, resent >>

\* a user without settings or without an API key: `continue`
SkipAccount ==
    /\ pc = "turn"
    /\ idx \in Users
    /\ NoCredential(settings[idx])
    /\ idx' = NextUser(idx)
    /\ UNCHANGED << clock, settings, contacts, stop_event, pc, processed_any,
                    picked, cur, loc, calls, env, lowered, resent >>

\* windows refreshed and committed, then a limit is reached: `continue`
QuotaBlocked ==
    /\ pc = "turn"
    /\ idx \in Users
    /\ ~NoCredential(settings[idx])
    /\ LET s == RefreshLimits(settings[idx], clock)
       IN  /\ OverLimit(s)
           /\ settings' = [settings EXCEPT ![idx] = s]
    /\ idx' = NextUser(idx)
    /\ UNCHANGED << clock, contacts, stop_event, pc, processed_any,
                    picked, cur, loc, calls, env, lowered, resent >>

\* windows refreshed and committed, no pending contact: `continue`
NoPending ==
    /\ pc = "turn"
    /\ idx \in Users
    /\ ~NoCredential(settings[idx])
    /\ LET s == RefreshLimits(settings[idx], clock)
       IN  /\ ~OverLimit(s)
           /\ settings' = [settings EXCEPT ![idx] = s]
    /\ PendingOf(idx) = {}
    /\ idx' = NextUser(idx)
    /\ UNCHANGED << clock, contacts, stop_event, pc, processed_any,
                    picked, cur, loc, calls, env, lowered, resent >>

\* windows refreshed and committed, one pending contact is moved to
\* processing and committed, and _process_single_contact is entered
Select ==
    /\ pc = "turn"
    /\ idx \in Users
    /\ ~NoCredential(settings[idx])
    /\ PendingOf(idx) # {}
    /\ LET s == RefreshLimits(settings[idx], clock)
           c == FirstOf(PendingOf(idx))
       IN  /\ ~OverLimit(s)
           /\ settings' = [settings EXCEPT ![idx] = s]
           /\ contacts' = [contacts EXCEPT ![c].status = "processing"]
           /\ cur' = c
           /\ loc' = [NoLocals EXCEPT
                         !.emails_sent_today = s.emails_sent_today,
                         !.emails_sent_this_hour = s.emails_sent_this_hour]
    /\ processed_any' = TRUE
    /\ picked' = [picked EXCEPT ![idx] = @ + 1]
    /\ calls' = NoCalls
    /\ pc' = "upsert"
    /\ UNCHANGED << clock, stop_event, idx, env, lowered, resent >>

\* _process_single_contact returns to the for loop; its locals are gone.
\* Of the provider calls of the dispatch the count of delete_contact calls is
\* kept until the next dispatch; n is the number issued by the returning step.
Return(n) ==
    /\ pc' = "turn"
    /\ idx' = NextUser(idx)
    /\ cur' = NoContact
    /\ loc' = NoLocals
    /\ calls' = [NoCalls EXCEPT !.remove = calls.remove + n]
    /\ UNCHANGED << processed_any, picked >>

\* status failed stored without a note
MarkFailed_NoNote(note) ==
    contacts' = [contacts EXCEPT ![cur].status = "failed"]

\* contact.status = "failed" with its note, committed
MarkFailed(note) ==
    contacts' = [contacts EXCEPT ![cur] =
                    [status |-> "failed", error_message |-> note]]

\* ------------------------------------------------------ Recipient Dispatcher
\* "1. Add Contact": requests.post in create_contact gets its answer
UpsertCall ==
    /\ pc = "upsert"
    /\ \E code \in UpsertResponses : loc' = [loc EXCEPT !.response = code]
    /\ calls' = [calls EXCEPT !.upsert = @ + 1]
    /\ pc' = "upserted"
    /\ UNCHANGED << clock, settings, contacts, stop_event, idx, processed_any,
                    picked, cur, env, lowered, resent >>

\* create_contact returns (success, error), and the `if not success` branch
UpsertResult ==
    /\ pc = "upserted"
    /\ LET r == create_contact(loc.response)
       IN  IF r.success
           THEN /\ loc' = [loc EXCEPT !.response = 0,
                                      !.success = TRUE, !.error = r.error]
                /\ pc' = "send"
                /\ UNCHANGED << contacts, idx, processed_any, picked, cur, calls >>
           ELSE /\ MarkFailed(CreateFailedNote)
                /\ Return(0)
    /\ UNCHANGED << clock, settings, stop_event, env, lowered, resent >>

\* "3. Send Email": the template is rendered, brevo.send_email, and the
\* `if not success` branch with its brevo.delete_contact
Send ==
    /\ pc = "send"
    /\ \E code \in SendResponses :
         LET r == send_email(code)
         IN  IF r.success
             THEN /\ loc' = [loc EXCEPT !.success = TRUE, !.error = "None",
                                        !.msg_id = r.msg_id,
                                        !.i = 0, !.ready_to_delete = FALSE]
                  /\ calls' = [calls EXCEPT !.send = @ + 1]
                  /\ pc' = "poll"
                  /\ UNCHANGED << contacts, idx, processed_any, picked, cur >>
             ELSE /\ MarkFailed(SendFailedNote)
                  /\ Return(1)
    /\ UNCHANGED << clock, settings, stop_event, env, lowered, resent >>

\* a polling loop that does not look for the delivered event
Delivered_Ignored(event_names) == FALSE

\* the three tests on event_names of one iteration of the polling loop
Delivered(event_names) == "delivered" \in event_names
BouncedOrError(event_names) ==
    "bounced" \in event_names \/ "error" \in event_names \/ "soft_bounce" \in event_names
LastRequest(event_names, i) == "request" \in event_names /\ i = max_retries - 1

\* "4. Wait for delivery confirmation": one iteration of `for i in range(max_retries)`
Poll ==
    /\ pc = "poll"
    /\ loc.i < max_retries
    /\ \E answer \in StatusAnswers :
         LET status_data == get_email_status(answer)
             event_names == status_data.events
             seen == loc.only_request /\ status_data.ok /\ event_names = {"request"}
         IN  IF status_data.ok /\ Delivered(event_names)
             THEN /\ loc' = [loc EXCEPT !.event_names = event_names,
                                        !.ready_to_delete = TRUE, !.only_request = seen]
                  /\ pc' = "finish"
             ELSE IF status_data.ok /\ BouncedOrError(event_names)
             THEN /\ loc' = [loc EXCEPT !.event_names = event_names,
                                        !.error_message = BouncedNote(event_names),
                                        !.ready_to_delete = TRUE, !.only_request = seen]
                  /\ pc' = "finish"
             ELSE /\ loc' = [loc EXCEPT
                                !.event_names = IF status_data.ok THEN event_names ELSE @,
                                !.ready_to_delete =
                                    IF status_data.ok /\ LastRequest(event_names, loc.i)
                                    THEN TRUE ELSE @,
                                !.i = @ + 1, !.only_request = seen]
                  /\ pc' = IF loc.i + 1 = max_retries THEN "finish" ELSE "poll"
    /\ calls' = [calls EXCEPT !.status = @ + 1]
    /\ UNCHANGED << clock, settings, contacts, stop_event, idx, processed_any,
                    picked, cur, env, lowered, resent >>

\* a note that keeps what the polling loop wrote and has no message id
SentNote_NoId(msg_id, ready_to_delete) == MessageIdNote("", ~ready_to_delete)

\* the error note of the "Update DB" block
SentNote(msg_id, ready_to_delete) == MessageIdNote(msg_id, ~ready_to_delete)

\* a send counted twice
RecordSend_Twice(s, l, now) ==
    [s EXCEPT !.emails_sent_today = l.emails_sent_today + 2,
              !.emails_sent_this_hour = l.emails_sent_this_hour + 2,
              !.last_run = now]

\* a send counted without its time
RecordSend_NoLastRun(s, l, now) ==
    [s EXCEPT !.emails_sent_today = l.emails_sent_today + 1,
              !.emails_sent_this_hour = l.emails_sent_this_hour + 1]

\* settings.emails_sent_today += 1 etc. on the session's settings object
RecordSend(s, l, now) ==
    [s EXCEPT !.emails_sent_today = l.emails_sent_today + 1,
              !.emails_sent_this_hour = l.emails_sent_this_hour + 1,
              !.last_run = now]

\* "5. Delete Contact" and "Update DB", committed
Finish ==
    /\ pc = "finish"
    /\ \E code \in DeleteResponses :
         contacts' = [contacts EXCEPT ![cur] =
                         [status |-> "sent",
                          error_message |-> SentNote(loc.msg_id, loc.ready_to_delete)]]
    /\ settings' = [settings EXCEPT ![idx] = RecordSend(@, loc, clock)]
    /\ Return(1)
    /\ UNCHANGED << clock, stop_event, env, lowered, resent >>

\* ------------------------------------------------------------- environment
\* time passes
AdvanceTime ==
    /\ env < MaxEnvSteps
    /\ \E d \in TimeSteps :
         clock' = clock + d
    /\ env' = env + 1
    /\ UNCHANGED << settings, contacts, stop_event, pc, idx, processed_any,
                    picked, cur, loc, calls, lowered, resent >>

\* POST /api/settings
update_settings ==
    /\ env < MaxEnvSteps
    /\ \E u \in Users, key \in ApiKeys, hl \in LimitValues, dl \in LimitValues :
         /\ settings' = [settings EXCEPT ![u] =
                            [(IF @.present THEN @ ELSE SignupSettings) EXCEPT
                                !.brevo_api_key = key,
                                !.hourly_limit = hl,
                                !.daily_limit = dl]]
         /\ lowered' = [lowered EXCEPT ![u] =
                           @ \/ hl < settings[u].hourly_limit
                             \/ dl < settings[u].daily_limit]
    /\ env' = env + 1
    /\ UNCHANGED << clock, contacts, stop_event, pc, idx, processed_any,
                    picked, cur, loc, calls, resent >>

\* select(Contact).where(Contact.email == email).first()
ContactByEmail(email) ==
    FirstOf({c \in ContactIds : InitContacts[c].email = email})

\* POST /api/resend/{email}, sent by the page of the signed-in account
\* `user`; the handler takes the email only
resend_email ==
    /\ env < MaxEnvSteps
    /\ \E user \in Users, email \in Emails :
         /\ contacts' = [contacts EXCEPT ![ContactByEmail(email)] =
                            [status |-> "pending", error_message |-> NoNote]]
         /\ resent' = [user |-> user, email |-> email]
    /\ env' = env + 1
    /\ UNCHANGED << clock, settings, stop_event, pc, idx, processed_any,
                    picked, cur, loc, calls, lowered >>

\* SchedulerService.stop sets the stop signal
stop ==
    /\ env < MaxEnvSteps
    /\ ~stop_event
    /\ stop_event' = TRUE
    /\ env' = env + 1
    /\ UNCHANGED << clock, settings, contacts, pc, idx, processed_any,
                    picked, cur, loc, calls, lowered, resent >>

\* ------------------------------------------------------------ specification
Next ==
    \/ PassStart
    \/ Exit
    \/ PassEnd
    \/ SkipAccount
    \/ QuotaBlocked
    \/ NoPending
    \/ Select
    \/ UpsertCall
    \/ UpsertResult
    \/ Send
    \/ Poll
    \/ Finish
    \/ AdvanceTime
    \/ update_settings
    \/ resend_email
    \/ stop

Spec == Init /\ [][Next]_vars

\* ------------------------------------------------- unexpected exceptions
\* The store or a malformed provider answer may raise inside the try block of
\* _process_single_contact. A commit that raises rolls the session back: the
\* rows keep what was last committed. The except block reads none of the
\* locals of the try block: on entry only `success` is kept, as the last
\* provider call left it.

\* session.commit() of the "Create Contact Failed" branch raises
UpsertCommitRaises ==
    /\ pc = "upserted"
    /\ ~create_contact(loc.response).success
    /\ pc' = "except"
    /\ loc' = NoLocals
    /\ UNCHANGED << clock, settings, contacts, stop_event, idx, processed_any,
                    picked, cur, calls, env, lowered, resent >>

\* session.commit() of the "Send Email Failed" branch raises, after its
\* brevo.delete_contact
SendCommitRaises ==
    /\ pc = "send"
    /\ \E code \in SendResponses : ~send_email(code).success
    /\ calls' = [calls EXCEPT !.send = @ + 1, !.remove = @ + 1]
    /\ pc' = "except"
    /\ loc' = NoLocals
    /\ UNCHANGED << clock, settings, contacts, stop_event, idx, processed_any,
                    picked, cur, env, lowered, resent >>

\* _get_email_template raises on reading the selected template, which is a
\* file the template upload stored as received (f.read() with utf-8)
TemplateRaises ==
    /\ pc = "send"
    /\ pc' = "except"
    /\ loc' = [NoLocals EXCEPT !.success = TRUE]
    /\ UNCHANGED << clock, settings, contacts, stop_event, idx, processed_any,
                    picked, cur, calls, env, lowered, resent >>

\* status_data.get("events") or e.get("name") raises on a body of another shape
PollRaises ==
    /\ pc = "poll"
    /\ loc.i < max_retries
    /\ calls' = [calls EXCEPT !.status = @ + 1]
    /\ loc' = [NoLocals EXCEPT !.success = TRUE]
    /\ pc' = "except"
    /\ UNCHANGED << clock, settings, contacts, stop_event, idx, processed_any,
                    picked, cur, env, lowered, resent >>

\* session.commit() of the "Update DB" block raises, after brevo.delete_contact
FinishCommitRaises ==
    /\ pc = "finish"
    /\ calls' = [calls EXCEPT !.remove = @ + 1]
    /\ pc' = "except"
    /\ loc' = [NoLocals EXCEPT !.success = TRUE]
    /\ UNCHANGED << clock, settings, contacts, stop_event, idx, processed_any,
                    picked, cur, env, lowered, resent >>

\* `except Exception`: status failed, "Internal Error", committed
Except ==
    /\ pc = "except"
    /\ MarkFailed(InternalErrorNote)
    /\ Return(0)
    /\ UNCHANGED << clock, settings, stop_event, env, lowered, resent >>

\* session.commit() of the except block raises: the exception leaves
\* _process_single_contact and the for loop, _run_loop logs it and sleeps
ExceptCommitRaises ==
    /\ pc = "except"
    /\ pc' = "loop"
    /\ cur' = NoContact
    /\ loc' = NoLocals
    /\ calls' = [NoCalls EXCEPT !.remove = calls.remove]
    /\ UNCHANGED << clock, settings, contacts, stop_event, idx, processed_any,
                    picked, env, lowered, resent >>

\* session.commit() of the window refresh (line 91) raises: nothing of the
\* turn is stored, the exception leaves the for loop, _run_loop logs it and
\* sleeps
RefreshCommitRaises ==
    /\ pc = "turn"
    /\ idx \in Users
    /\ ~NoCredential(settings[idx])
    /\ pc' = "loop"
    /\ UNCHANGED << clock, settings, contacts, stop_event, idx, processed_any,
                    picked, cur, loc, calls, env, lowered, resent >>

\* session.commit() of the selection (line 117) raises: the refreshed windows
\* are stored, the recipient stays pending, the exception leaves the for loop
SelectCommitRaises ==
    /\ pc = "turn"
    /\ idx \in Users
    /\ ~NoCredential(settings[idx])
    /\ PendingOf(idx) # {}
    /\ LET s == RefreshLimits(settings[idx], clock)
       IN  /\ ~OverLimit(s)
           /\ settings' = [settings EXCEPT ![idx] = s]
    /\ processed_any' = TRUE
    /\ pc' = "loop"
    /\ UNCHANGED << clock, contacts, stop_event, idx, picked, cur, loc, calls,
                    env, lowered, resent >>

NextFault ==
    \/ Next
    \/ RefreshCommitRaises
    \/ SelectCommitRaises
    \/ UpsertCommitRaises
    \/ SendCommitRaises
    \/ TemplateRaises
    \/ PollRaises
    \/ FinishCommitRaises
    \/ Except
    \/ ExceptCommitRaises

SpecFault == Init /\ [][NextFault]_vars

\* ------------------------------------------------------------ fair running
\* The scheduler thread keeps running (no stop signal, no settings write, no
\* resend), every provider call returns, and time goes on: while an account
\* with a credential and a pending recipient is at a limit, a day passes,
\* which rolls both of its windows over at its next quota check.
Blocked(u) ==
    /\ ~NoCredential(settings[u])
    /\ PendingOf(u) # {}
    /\ OverLimit(RefreshLimits(settings[u], clock))

TimeGoesOn ==
    /\ \E u \in Users : Blocked(u)
    /\ clock' = clock + DaySeconds
    /\ UNCHANGED << settings, contacts, stop_event, pc, idx, processed_any,
                    picked, cur, loc, calls, env, lowered, resent >>

\* the turn of the first account of the pass raises at one of its commits
\* (line 91 or line 117)
FirstTurnRaises ==
    /\ idx = 1
    /\ (RefreshCommitRaises \/ SelectCommitRaises)

\* the steps of the scheduler thread
RunLoop ==
    \/ PassStart
    \/ PassEnd
    \/ SkipAccount
    \/ QuotaBlocked
    \/ NoPending
    \/ Select
    \/ UpsertCall
    \/ UpsertResult
    \/ Send
    \/ Poll
    \/ Finish
    \/ FirstTurnRaises

NextLive ==
    \/ RunLoop
    \/ TimeGoesOn

\* the thread is a running OS thread and the clock is the wall clock
SpecLive ==
    /\ Init
    /\ [][NextLive]_vars
    /\ WF_vars(RunLoop)
    /\ WF_vars(TimeGoesOn)

\* ---------------------------------------------------------------- claims
\* the scheduler thread takes a step
SchedulerStep == << pc, idx >>' # << pc, idx >>

\* the quota check of user u's turn: windows refreshed, committed, limits compared
QuotaCheck(u) ==
    /\ pc = "turn"
    /\ idx = u
    /\ ~NoCredential(settings[u])
    /\ SchedulerStep

\* _process_single_contact returns or is left by an exception
DispatchEnds == pc \in DispatchPcs /\ pc' \notin DispatchPcs

WithinLimits(s) ==
    /\ s.emails_sent_this_hour <= s.hourly_limit
    /\ s.emails_sent_today <= s.daily_limit

\* C1 (as stated): between passes, every account has
\* emails_sent_this_hour <= hourly_limit and emails_sent_today <= daily_limit,
\* also when settings writes interleave with the passes.
C1_QuotaWithinLimits ==
    pc = "loop" => \A u \in Users : WithinLimits(settings[u])

\* C1 (amended): an account none of whose limits a settings write has lowered
\* has emails_sent_this_hour <= hourly_limit and emails_sent_today <=
\* daily_limit in every state.
C1_QuotaWithinUnloweredLimits ==
    \A u \in Users : ~lowered[u] => WithinLimits(settings[u])

\* a settings write that lowered no limit has been served and the account has
\* used its whole hourly quota
C1_Witness ==
    \E u \in Users :
        /\ env > 0
        /\ ~lowered[u]
        /\ settings[u].hourly_limit > 0
        /\ settings[u].emails_sent_this_hour = settings[u].hourly_limit
        /\ settings[u].emails_sent_today = settings[u].daily_limit

\* C2: every change of a recipient's status is pending -> processing by the
\* loop's selection, processing -> sent/failed by the dispatcher, or
\* sent/failed -> pending by a resend; nothing else.
C2_OnlyListedTransitions ==
    [][\A c \in ContactIds :
          LET from == contacts[c].status
              to == contacts'[c].status
          IN  from # to =>
                \/ from = "pending" /\ to = "processing"
                     /\ pc = "turn" /\ SchedulerStep
                \/ from = "processing" /\ to \in {"sent", "failed"}
                     /\ pc \in DispatchPcs /\ cur = c /\ SchedulerStep
                \/ from \in {"sent", "failed"} /\ to = "pending"
                     /\ ~SchedulerStep]_vars

\* C3: whenever a call of the dispatcher ends, by return or by exception,
\* the recipient's persisted status is sent or failed.
C3_DispatchEndsTerminal ==
    [][DispatchEnds => contacts'[cur].status \in {"sent", "failed"}]_vars

\* C4: a dispatch whose 10 polls all returned only a request event ends with
\* status sent and a note that has the timeout indication.
C4_TimeoutNoted ==
    [][(pc = "finish" /\ SchedulerStep
          /\ loc.i = max_retries /\ loc.only_request)
        => /\ contacts'[cur].status = "sent"
           /\ contacts'[cur].error_message.timeout]_vars

\* C5: in one pass at most one recipient per account is moved to processing,
\* and an account that has a credential, quota left after the window refresh
\* and a pending recipient at its turn gets exactly one recipient dispatched.
C5_OnePerAccountPerPass ==
    [][/\ \A u \in Users : picked'[u] <= 1
       /\ \A u \in Users :
            (/\ QuotaCheck(u)
             /\ PendingOf(u) # {}
             /\ settings'[u].emails_sent_today < settings'[u].daily_limit
             /\ settings'[u].emails_sent_this_hour < settings'[u].hourly_limit)
            => /\ picked'[u] = 1
               /\ pc' = "upsert"
               /\ cur' \in PendingOf(u)
               /\ contacts'[cur'].status = "processing"]_vars

\* a pass has ended in which both accounts had one recipient dispatched
C5_Witness ==
    /\ pc = "loop"
    /\ \A u \in Users : picked[u] = 1
    /\ \A u \in Users : settings[u].emails_sent_today = 1

\* C6: the scheduler moves a recipient to processing only at a turn where,
\* after the window refresh, both counters are below their limits.
C6_NoSelectionOverLimit ==
    [][\A c \in ContactIds :
          (contacts[c].status = "pending" /\ contacts'[c].status = "processing")
          => LET s == settings'[InitContacts[c].user_id]
             IN  /\ s.emails_sent_today < s.daily_limit
                 /\ s.emails_sent_this_hour < s.hourly_limit]_vars

\* hourly_limit = 1, one recipient sent, the second still pending after the
\* account's turn of a later pass
C6_Witness ==
    /\ pc = "turn"
    /\ idx = 2
    /\ picked[1] = 0
    /\ settings[1].hourly_limit = 1
    /\ settings[1].emails_sent_this_hour = 1
    /\ settings[1].brevo_api_key # ""
    /\ contacts[1].status = "sent"
    /\ contacts[2].status = "pending"

\* C7: at a quota check the hour window is reset iff its start is unset or
\* now - start >= 3600 seconds; otherwise counter and start are unchanged.
C7_HourResetAtOneHour ==
    [][\A u \in Users :
          QuotaCheck(u) =>
            LET s == settings[u]
                t == settings'[u]
            IN  IF \/ s.current_hour_window_start = NoTime
                   \/ clock - s.current_hour_window_start >= HourSeconds
                THEN /\ t.emails_sent_this_hour = 0
                     /\ t.current_hour_window_start = clock
                ELSE /\ t.emails_sent_this_hour = s.emails_sent_this_hour
                     /\ t.current_hour_window_start = s.current_hour_window_start]_vars

\* C8: at a quota check the day window is reset iff its start is unset or the
\* date of now is after the date of the start; a check less than an hour into
\* the hour window leaves the hour counter and start as they are, whatever
\* the day window does.
C8_DayResetByDate ==
    [][\A u \in Users :
          QuotaCheck(u) =>
            LET s == settings[u]
                t == settings'[u]
            IN  /\ IF \/ s.current_day_window_start = NoTime
                      \/ Date(clock) > Date(s.current_day_window_start)
                   THEN /\ t.emails_sent_today = 0
                        /\ t.current_day_window_start = clock
                   ELSE /\ t.emails_sent_today = s.emails_sent_today
                        /\ t.current_day_window_start = s.current_day_window_start
                /\ (/\ s.current_hour_window_start # NoTime
                    /\ clock - s.current_hour_window_start < HourSeconds)
                   => /\ t.emails_sent_this_hour = s.emails_sent_this_hour
                      /\ t.current_hour_window_start = s.current_hour_window_start]_vars

\* a check at 00:10 has reset the day window opened at 23:50 the day before,
\* 20 minutes earlier, and has kept the hour window and its counter
C8_Witness ==
    \E u \in Users :
        /\ settings[u].current_day_window_start = clock
        /\ settings[u].emails_sent_today = 0
        /\ settings[u].current_hour_window_start # NoTime
        /\ Date(settings[u].current_hour_window_start) < Date(clock)
        /\ clock - settings[u].current_hour_window_start < HourSeconds
        /\ settings[u].emails_sent_this_hour > 0

\* C9: an upsert answered 409 continues to the send step as one answered
\* 201 or 204 does; any other answer or a transport exception ends the
\* dispatch with status failed and no send call.
C9_UpsertConflictProceeds ==
    [][(pc = "upserted" /\ SchedulerStep) =>
          IF loc.response \in {201, 204, 409}
          THEN /\ pc' = "send"
               /\ contacts' = contacts
               /\ calls'.send = 0
          ELSE /\ pc' \notin DispatchPcs
               /\ contacts'[cur].status = "failed"
               /\ contacts'[cur].error_message.kind = "Create Contact Failed"
               /\ calls.send = 0]_vars

\* the upsert was answered 409 and the dispatch is at the send step
C9_Witness ==
    /\ pc = "send"
    /\ loc.error = "Contact already exists"
    /\ contacts[cur].status = "processing"

\* C10: when a poll returned bounced, soft_bounce or error, the note persisted
\* at the end of the dispatch records that event set.
C10_BounceNoteKept ==
    [][(pc = "finish" /\ SchedulerStep
          /\ loc.error_message.kind = "Bounced/Failed")
        => contacts'[cur].error_message = loc.error_message]_vars

\* C11: an error raised in one account's turn of a pass (window refresh,
\* selection or dispatch) does not end the pass before the accounts after it
\* have had their turn, and the scheduler thread ends only on the stop signal.
C11_PassReachesLaterAccounts ==
    [][/\ (pc # "loop" /\ pc' = "loop") => idx >= NumUsers
       /\ (pc # "exited" /\ pc' = "exited") => stop_event]_vars

\* stop() has returned: the signal is set and join() has seen the thread end
StopReturned == stop_event /\ pc = "exited"

\* C12: the stop signal is read only at the head of a pass: with the signal
\* set, a pass or a dispatch in progress goes on to its end, the thread ends
\* only from between two passes, and when stop() returns no recipient is in
\* processing.
C12_StopBetweenPasses ==
    /\ [][/\ (pc # "exited" /\ pc' = "exited") => (pc = "loop" /\ stop_event)
          /\ (stop_event /\ pc \in DispatchPcs /\ SchedulerStep)
                => pc' \in DispatchPcs \cup {"turn"}
          /\ (stop_event /\ pc = "turn" /\ SchedulerStep)
                => pc' \in {"turn", "upsert", "loop"}]_vars
    /\ [](StopReturned => \A c \in ContactIds : contacts[c].status # "processing")

\* stop() was called during a dispatch and has returned after the dispatch
\* stored its outcome
C12_Witness ==
    /\ StopReturned
    /\ \E c \in ContactIds : contacts[c].status = "sent"
    /\ \E u \in Users : picked[u] = 1 /\ settings[u].emails_sent_today = 1

\* C13: with the one scheduler thread, a selection is followed by at most one
\* send call, and a quota counter goes up only by one, only in the step that
\* stores the outcome of the selected recipient's dispatch and ends it,
\* whatever resend and settings requests are served in between.
C13_OneSendOneCountPerSelection ==
    [][/\ calls'.send <= 1
       /\ calls'.send > calls.send => (pc = "send" /\ pc' = "poll")
       /\ \A u \in Users :
            LET s == settings[u]
                t == settings'[u]
            IN  /\ t.emails_sent_today <= s.emails_sent_today + 1
                /\ t.emails_sent_this_hour <= s.emails_sent_this_hour + 1
                /\ (\/ t.emails_sent_today > s.emails_sent_today
                    \/ t.emails_sent_this_hour > s.emails_sent_this_hour)
                   => /\ pc = "finish" /\ idx = u /\ calls.send = 1
                      /\ InitContacts[cur].user_id = u
                      /\ pc' = "turn" /\ cur' = NoContact]_vars

\* a resend of the recipient in dispatch was served, the one send call of
\* the selection has been made and polling is under way
C13_Witness ==
    /\ pc = "poll"
    /\ calls.send = 1
    /\ env > 0
    /\ contacts[cur].status = "pending"

\* C14: a dispatch that ends with status sent has added exactly one to
\* emails_sent_this_hour and to emails_sent_today and has set last_run; a
\* dispatch that ends otherwise leaves the account's counters and last_run
\* as they were; a counter goes down only by a window reset of a quota check.
C14_QuotaAccounting ==
    [][/\ DispatchEnds =>
            LET s == settings[idx]
                t == settings'[idx]
            IN  IF contacts'[cur].status = "sent"
                THEN /\ t.emails_sent_this_hour = s.emails_sent_this_hour + 1
                     /\ t.emails_sent_today = s.emails_sent_today + 1
                     /\ t.last_run = clock
                ELSE /\ t.emails_sent_this_hour = s.emails_sent_this_hour
                     /\ t.emails_sent_today = s.emails_sent_today
                     /\ t.last_run = s.last_run
       /\ \A u \in Users :
            LET s == settings[u]
                t == settings'[u]
            IN  /\ t.emails_sent_this_hour < s.emails_sent_this_hour
                   => /\ QuotaCheck(u)
                      /\ t.emails_sent_this_hour = 0
                      /\ t.current_hour_window_start = clock
                /\ t.emails_sent_today < s.emails_sent_today
                   => /\ QuotaCheck(u)
                      /\ t.emails_sent_today = 0
                      /\ t.current_day_window_start = clock]_vars

\* one recipient of an account has ended failed by an internal error without
\* being counted, the next one has ended sent and is the only one counted
C14_Witness ==
    /\ contacts[1].status = "failed"
    /\ contacts[1].error_message = InternalErrorNote
    /\ contacts[2].status = "sent"
    /\ settings[1].emails_sent_today = 1
    /\ settings[1].emails_sent_this_hour = 1
    /\ settings[1].last_run # NoTime

\* C15: after a successful send call the dispatch ends with status sent and a
\* note holding the provider's message id, whatever the polls returned:
\* delivered, bounced, soft_bounce, error, request only, or no status.
C15_SentAfterSendOk ==
    [][/\ (pc = "poll" /\ SchedulerStep) => pc' \in {"poll", "finish"}
       /\ (pc \in {"poll", "finish"} /\ DispatchEnds)
            => /\ calls.send = 1
               /\ loc.msg_id # ""
               /\ contacts'[cur].status = "sent"
               /\ contacts'[cur].error_message.kind = "Message ID"
               /\ contacts'[cur].error_message.msg_id = loc.msg_id]_vars

\* a recipient whose polls never returned a usable status has ended sent with
\* the message id and the timeout text
C15_Witness ==
    \E c \in ContactIds :
        /\ contacts[c].status = "sent"
        /\ contacts[c].error_message.msg_id = "M1"
        /\ contacts[c].error_message.timeout

\* the upsert of the dispatch in progress succeeded
UpsertSucceeded ==
    \/ pc \in {"send", "poll", "finish"}
    \/ pc = "except" /\ (loc.success \/ calls.send > 0)

\* C16: a dispatch whose upsert succeeded has called the provider's
\* delete_contact by the time it returns, whether it ends by a send failure,
\* after the polls, or by an internal error after the upsert.
C16_RemovedBeforeReturn ==
    [][(DispatchEnds /\ UpsertSucceeded) => calls'.remove > 0]_vars

FailureNotes == {"Create Contact Failed", "Send Email Failed", "Internal Error"}

\* C17: a recipient whose status is failed has a note with the create-failed,
\* send-failed or internal-error text, and the step that stores failed stores
\* that note with it.
C17_FailedHasNote ==
    /\ [](\A c \in ContactIds :
            contacts[c].status = "failed"
               => contacts[c].error_message.kind \in FailureNotes)
    /\ [][\A c \in ContactIds :
            (contacts[c].status # "failed" /\ contacts'[c].status = "failed")
               => /\ contacts'[c].error_message.kind \in FailureNotes
                  /\ contacts'[c].error_message # contacts[c].error_message]_vars

\* each of the three failure paths has ended a dispatch
C17_Witness ==
    /\ contacts[1].status = "failed"
    /\ contacts[2].status = "failed"
    /\ contacts[3].status = "failed"
    /\ {contacts[c].error_message.kind : c \in ContactIds} = FailureNotes

\* a provider call is issued in this step
ProviderCall ==
    \/ calls'.upsert > calls.upsert
    \/ calls'.send > calls.send
    \/ calls'.status > calls.status
    \/ calls'.remove > calls.remove

\* C18: the step that enters a dispatch stores status processing for a
\* recipient whose stored status was pending and issues no provider call;
\* the upsert, the first provider call, comes in a later step, and provider
\* calls are issued only inside a dispatch entered that way.
C18_ProcessingBeforeCalls ==
    [][/\ (pc \notin DispatchPcs /\ pc' \in DispatchPcs)
            => /\ pc' = "upsert"
               /\ contacts[cur'].status = "pending"
               /\ contacts'[cur'].status = "processing"
               /\ calls'.upsert = 0 /\ calls'.send = 0 /\ calls'.status = 0
               /\ ~ProviderCall
       /\ ProviderCall => (pc \in DispatchPcs /\ cur # NoContact)
       /\ calls'.upsert > calls.upsert
            => (pc = "upsert" /\ calls.send = 0 /\ calls.status = 0)
       /\ (calls'.send > calls.send \/ calls'.status > calls.status)
            => calls.upsert = 1]_vars

\* the upsert of a dispatch has been issued for a recipient stored as
\* processing
C18_Witness ==
    /\ pc = "upserted"
    /\ calls.upsert = 1
    /\ contacts[cur].status = "processing"

TerminalEvents == {"delivered", "bounced", "soft_bounce", "error"}

\* C19: a dispatch issues at most 10 status queries; the query whose events
\* hold delivered, bounced, soft_bounce or error is the last one; and with no
\* status ever returned the 10th query is the last one.
C19_PollingBounded ==
    /\ [](calls.status <= max_retries)
    /\ [][/\ calls'.status > calls.status
               => (pc = "poll" /\ calls'.status = calls.status + 1)
          /\ calls'.status > calls.status
               => \/ pc' = "finish"
                  \/ /\ pc' = "poll"
                     /\ calls'.status < max_retries
                     /\ loc'.event_names \cap TerminalEvents = {}
                     /\ loc'.i = calls'.status
          /\ (pc = "finish" /\ SchedulerStep) => pc' = "turn"]_vars

\* ten queries were issued, none returned a usable status, polling is over
C19_Witness ==
    /\ pc = "finish"
    /\ calls.status = max_retries
    /\ ~loc.ready_to_delete
    /\ ~loc.only_request

\* the recipients of account u
ContactsOf(u) == {c \in ContactIds : InitContacts[c].user_id = u}

\* C20: the turn of an account that has no settings row or an empty API key
\* changes no recipient, no settings row and issues no provider call; and a
\* scheduler step of another account's turn changes nothing of the account.
C20_NoCredentialNoEffect ==
    [][\A u \in Users :
          /\ (/\ pc = "turn" /\ idx = u /\ SchedulerStep
              /\ (~settings[u].present \/ settings[u].brevo_api_key = ""))
             => /\ pc' = "turn" /\ idx' = u + 1
                /\ UNCHANGED << settings, contacts, calls, cur >>
          /\ (SchedulerStep /\ idx # u)
             => /\ settings'[u] = settings[u]
                /\ \A c \in ContactsOf(u) : contacts'[c] = contacts[c]]_vars

\* account 1 has no settings row, account 2 a row without key; the pass has
\* come to its end and has touched neither
C20_Witness ==
    /\ pc = "turn"
    /\ idx > NumUsers
    /\ settings[1] = NoSettings
    /\ settings[2] = SignupSettings
    /\ \A c \in ContactIds : contacts[c].status = "pending"

\* C26: a resend request changes the status of at most one recipient, and
\* only of a recipient of the account that made the request.
C26_ResendOwnRecipientOnly ==
    [][resent' # resent =>
          LET changed == {c \in ContactIds : contacts'[c] # contacts[c]}
          IN  /\ Cardinality(changed) <= 1
              /\ changed \subseteq ContactsOf(resent'.user)]_vars

\* C21: the scheduler enters a dispatch only for a recipient whose stored
\* status is pending, and a scheduler step changes a recipient that is in
\* processing, sent or failed only if it is the one being dispatched: a
\* recipient left in processing with no dispatch running, like a sent or a
\* failed one, keeps its status and note through every pass.
C21_OnlyPendingSelected ==
    [][/\ (pc \notin DispatchPcs /\ pc' \in DispatchPcs)
            => contacts[cur'].status = "pending"
       /\ \A c \in ContactIds :
            (/\ contacts[c].status \in {"processing", "sent", "failed"}
             /\ contacts'[c] # contacts[c])
            => \/ cur = c /\ pc \in DispatchPcs /\ DispatchEnds
               \/ env' # env /\ ~SchedulerStep]_vars

\* a recipient was left in processing with no dispatch running, and in a
\* later pass the account's next pending recipient has been selected instead
C21_Witness ==
    /\ contacts[1].status = "processing"
    /\ cur = 2
    /\ pc = "upsert"
    /\ contacts[2].status = "processing"

\* C22: when the scheduler moves a recipient to processing, no recipient of
\* the same account with a smaller id (inserted earlier) is pending.
C22_InsertionOrder ==
    [][\A c \in ContactIds :
          (contacts[c].status = "pending" /\ contacts'[c].status = "processing")
          => \A o \in ContactsOf(InitContacts[c].user_id) :
                o < c => contacts[o].status # "pending"]_vars

\* the account's second recipient is selected after its first has been sent
C22_Witness ==
    /\ pc = "upsert"
    /\ cur = 2
    /\ contacts[1].status = "sent"
    /\ contacts[2].status = "processing"

\* C23: a resend stored while the recipient's dispatch is in flight is still
\* in effect after the dispatch has written its outcome: the recipient is
\* pending (or selected again), not sent or failed.
C23_ResendNotLost ==
    [][\A c \in ContactIds :
          (/\ cur = c /\ DispatchEnds
           /\ contacts[c].status = "pending")
          => contacts'[c].status \in {"pending", "processing"}]_vars

\* the send call of the dispatch in progress returned success
SendSucceeded ==
    \/ pc \in {"poll", "finish"}
    \/ pc = "except" /\ calls.send > 0 /\ loc.success

\* C24: a dispatch whose send call returned success has added one to both
\* quota counters of the account by the time it ends, also when polling, the
\* removal or the outcome write raised.
C24_AcceptedIsCounted ==
    [][(DispatchEnds /\ SendSucceeded)
          => /\ settings'[idx].emails_sent_this_hour
                   = settings[idx].emails_sent_this_hour + 1
             /\ settings'[idx].emails_sent_today
                   = settings[idx].emails_sent_today + 1]_vars

\* the accounts whose own turns do not raise in SpecLive
SoundAccounts == Users \ {1}

====
